---- MODULE Spec2Model ----
(***************************************************************************)
(* Model of src/combiner.py: the one-shot batch that reads a village CSV,  *)
(* derives PercentAccess / AccessLevel per record, sums per (State,        *)
(* District), and writes district_summary, points.geojson and the static   *)
(* web bundle.                                                             *)
(*                                                                         *)
(* Numbers.  A nullable value is a tuple: <<>> is SQL NULL / Python None,  *)
(* <<v>> an int.  A double is an exact rational <<n, d>> in lowest terms   *)
(* with d > 0 (binary rounding error of IEEE doubles is not modelled);     *)
(* <<0, 0>> is the value of a division whose divisor was 0, which Spark    *)
(* renders as NULL.                                                        *)
(***************************************************************************)
EXTENDS Integers, Sequences, FiniteSets, Bags, TLC

VARIABLES
    argv_len,    \* len(sys.argv): the program name plus the positional arguments
    outdir0,     \* the output directory as the run found it: "absent" or "stale"
    csv,         \* the rows of the input file, once it has been read
    pc,          \* the statement to execute next
    df,          \* the dataframe df
    summary,     \* the dataframe summary
    rows,        \* the collected rows
    features,    \* the list features
    files,       \* the content of each output artifact
    dir_exists,  \* whether output_dir exists
    stdout,      \* the messages printed
    exit_code,   \* Null while running, <<status>> once the process has ended
    error,       \* the exception that ended the run, "none" if none
    log          \* the statements executed so far, each with its outcome

vars == <<argv_len, outdir0, csv, pc, df, summary, rows, features,
          files, dir_exists, stdout, exit_code, error, log>>

(* ------------------------------ bounds -------------------------------- *)
MaxRecords == 2
MaxCount == 2
MaxRecordCount == 5
MaxArgv == 4

(* ------------------------- arithmetic helpers ------------------------- *)
Null == <<>>

Abs(x) == IF x < 0 THEN -x ELSE x

RECURSIVE GCD(_, _)
GCD(a, b) == IF b = 0 THEN a ELSE GCD(b, a % b)

\* the double n/d, in lowest terms; d > 0
Rat(n, d) == LET g == GCD(Abs(n), d) IN <<n \div g, d \div g>>

DivByZero == <<0, 0>>

\* SQL NULL as seen by a comparison or by Python (None)
IsNull(x) == x = Null \/ x = DivByZero

\* Spark's `/` on two int columns: NULL if an operand is NULL, a double otherwise
Divide(a, b) ==
    IF a = Null \/ b = Null THEN Null
    ELSE IF b[1] = 0 THEN DivByZero
    ELSE IF b[1] < 0 THEN Rat(-a[1], -b[1])
    ELSE Rat(a[1], b[1])

\* Spark's `* 100` on a double column
Times100(x) == IF IsNull(x) THEN x ELSE Rat(x[1] * 100, x[2])

\* col > 0 on a nullable int column; NULL counts as not satisfied in `when`
GtZero(t) == t # Null /\ t[1] > 0

\* col >= k on a nullable double column; NULL counts as not satisfied in `when`
GeInt(x, k) == ~IsNull(x) /\ x[1] >= k * x[2]

\* floor of n/d in units of 1/100, for d > 0
FloorHundredths(x) == (x[1] * 100) \div x[2]

\* Spark's round(col, 2): HALF_UP (ties away from zero) to 2 decimals
RoundHalfUp2(x) ==
    IF IsNull(x) THEN x
    ELSE IF x[1] >= 0
         THEN Rat((2 * x[1] * 100 + x[2]) \div (2 * x[2]), 100)
         ELSE Rat(-((2 * (-x[1]) * 100 + x[2]) \div (2 * x[2])), 100)

\* Python's round(x, 2) on a float: nearest 1/100, ties to even
RoundHalfEven2(x) ==
    LET f == FloorHundredths(x)
        twice == 2 * (x[1] * 100 - f * x[2])   \* 2 * remainder, in units of 1/x[2]
    IN  IF twice < x[2] THEN Rat(f, 100)
        ELSE IF twice > x[2] THEN Rat(f + 1, 100)
        ELSE IF f % 2 = 0 THEN Rat(f, 100) ELSE Rat(f + 1, 100)

(* ------------------------------ the input ----------------------------- *)
Artifacts == <<"district_summary", "points.geojson", "index.html", "styles.css", "script.js">>
ArtifactSet == {Artifacts[i] : i \in DOMAIN Artifacts}

\* a CSV cell: a number, or text that no numeric cast accepts
NumCell(v) == [numeric |-> TRUE, val |-> v]
BadCell == [numeric |-> FALSE, val |-> 0]

RawRows(villages, states, districts, totals, cleans, lats, lons) ==
    [village_name : villages, district : districts, state : states,
     total_households : totals, households_with_clean_water : cleans,
     latitude : lats, longitude : lons]

SeqsUpTo(S, n) == UNION {[1..k -> S] : k \in 0..n}

Cells(lo, hi) == {BadCell} \cup {NumCell(v) : v \in lo..hi}

\* inputs for the aggregation claims: the counts vary, and the district name
\* D1 is used in two states, so that the key needs both of its columns
AggInputs ==
    SeqsUpTo(RawRows({"V1"}, {"S1", "S2"}, {"D1"},
                     Cells(0, MaxCount), Cells(0, MaxCount),
                     {NumCell(1)}, {NumCell(2)}), MaxRecords)

\* inputs for the per-record claims: one record, a wider range of counts
RecordInputs ==
    SeqsUpTo(RawRows({"V1"}, {"S1"}, {"D1"},
                     Cells(0, MaxRecordCount), Cells(0, MaxRecordCount),
                     {NumCell(1)}, {NumCell(2)}), 1)

\* inputs for the export claims: coordinates, counts and their nullness vary
ExportInputs ==
    SeqsUpTo(RawRows({"V1"}, {"S1"}, {"D1"},
                     {NumCell(0), NumCell(3)}, {BadCell, NumCell(1), NumCell(2)},
                     {BadCell, NumCell(1)}, {BadCell, NumCell(2)}), MaxRecords)

(* --------------------------- the transformer -------------------------- *)
\* col.cast("int"): NULL for a value that is no number
CastInt(cell) == IF cell.numeric THEN <<cell.val>> ELSE Null

\* col.cast("double")
CastDouble(cell) == IF cell.numeric THEN Rat(cell.val, 1) ELSE Null

\* the mutant of PercentAccessOf that guards with >= 0 instead of > 0
PercentAccessOf_NonNegGuard(total, clean) ==
    IF total # Null /\ total[1] >= 0 THEN Times100(Divide(clean, total)) ELSE Rat(0, 1)

\* when(TotalHouseholds > 0, (CleanWaterHH / TotalHouseholds) * 100).otherwise(0)
PercentAccessOf(total, clean) ==
    IF GtZero(total) THEN Times100(Divide(clean, total)) ELSE Rat(0, 1)

\* the mutant of AccessLevelOf that excludes the boundary 75 from "High"
AccessLevelOf_Strict75(p) ==
    IF ~IsNull(p) /\ p[1] > 75 * p[2] THEN "High"
    ELSE IF GeInt(p, 40) THEN "Medium"
    ELSE "Low"

\* when(PercentAccess >= 75, "High").when(PercentAccess >= 40, "Medium").otherwise("Low")
AccessLevelOf(p) ==
    IF GeInt(p, 75) THEN "High"
    ELSE IF GeInt(p, 40) THEN "Medium"
    ELSE "Low"

TransformRow(raw) ==
    LET total == CastInt(raw.total_households)
        clean == CastInt(raw.households_with_clean_water)
        p == PercentAccessOf(total, clean)
    IN  [Village |-> raw.village_name, District |-> raw.district, State |-> raw.state,
         TotalHouseholds |-> total, CleanWaterHH |-> clean,
         Lat |-> CastDouble(raw.latitude), Lon |-> CastDouble(raw.longitude),
         PercentAccess |-> p, AccessLevel |-> AccessLevelOf(p)]

Transform(input) == [i \in DOMAIN input |-> TransformRow(input[i])]

(* --------------------------- the aggregator --------------------------- *)
\* the mutant of SameGroup that groups by District alone
SameGroup_DistrictOnly(a, b) == a.District = b.District

\* groupBy("State", "District")
SameGroup(a, b) == a.State = b.State /\ a.District = b.District

\* one step of SQL sum(): NULL values are skipped, the sum of none is NULL
SumStep(acc, v) ==
    IF v = Null THEN acc
    ELSE IF acc = Null THEN v
    ELSE <<acc[1] + v[1]>>

RECURSIVE GroupFold(_, _)
GroupFold(recs, acc) ==
    IF recs = <<>> THEN acc
    ELSE LET r == Head(recs)
             hit == {i \in DOMAIN acc : SameGroup(acc[i], r)}
         IN  IF hit = {}
             THEN GroupFold(Tail(recs),
                      Append(acc, [State |-> r.State, District |-> r.District,
                                   TotalHouseholds |-> SumStep(Null, r.TotalHouseholds),
                                   CleanWaterHH |-> SumStep(Null, r.CleanWaterHH)]))
             ELSE LET i == CHOOSE j \in hit : TRUE
                  IN  GroupFold(Tail(recs),
                          [acc EXCEPT ![i].TotalHouseholds = SumStep(@, r.TotalHouseholds),
                                      ![i].CleanWaterHH = SumStep(@, r.CleanWaterHH)])

\* when(TotalHouseholds > 0, round((CleanWaterHH / TotalHouseholds) * 100, 2)).otherwise(0)
SummaryPercent(total, clean) ==
    IF GtZero(total) THEN RoundHalfUp2(Times100(Divide(clean, total))) ELSE Rat(0, 1)

\* the mutant of Summarize that reports the mean of the records' rates
RECURSIVE SumRates(_, _)
SumRates(recs, S) ==
    IF S = {} THEN <<0, 1>>
    ELSE LET j == CHOOSE i \in S : TRUE
             q == recs[j].PercentAccess
             rest == SumRates(recs, S \ {j})
         IN  Rat(q[1] * rest[2] + rest[1] * q[2], q[2] * rest[2])

MeanRate(recs, row) ==
    LET S == {j \in DOMAIN recs : SameGroup(recs[j], row) /\ ~IsNull(recs[j].PercentAccess)}
        total == SumRates(recs, S)
    IN  IF S = {} THEN Null ELSE Rat(total[1], total[2] * Cardinality(S))

Summarize_MeanOfRates(recs) ==
    LET g == GroupFold(recs, <<>>)
    IN  [i \in DOMAIN g |->
            [State |-> g[i].State, District |-> g[i].District,
             TotalHouseholds |-> g[i].TotalHouseholds, CleanWaterHH |-> g[i].CleanWaterHH,
             PercentAccess |-> RoundHalfUp2(MeanRate(recs, g[i]))]]

Summarize(recs) ==
    LET g == GroupFold(recs, <<>>)
    IN  [i \in DOMAIN g |->
            [State |-> g[i].State, District |-> g[i].District,
             TotalHouseholds |-> g[i].TotalHouseholds, CleanWaterHH |-> g[i].CleanWaterHH,
             PercentAccess |-> SummaryPercent(g[i].TotalHouseholds, g[i].CleanWaterHH)]]

(* ---------------------------- the exporter ---------------------------- *)
\* df.select("Village","District","State","Lat","Lon","PercentAccess","AccessLevel").collect()
SelectRow(r) ==
    [Village |-> r.Village, District |-> r.District, State |-> r.State,
     Lat |-> r.Lat, Lon |-> r.Lon,
     PercentAccess |-> r.PercentAccess, AccessLevel |-> r.AccessLevel]

Collect(recs) == [i \in DOMAIN recs |-> SelectRow(recs[i])]

\* the mutant of FeatureOf that writes the coordinates as [Lat, Lon]
FeatureOf_LatLon(r) ==
    [type |-> "Feature",
     geometry |-> [type |-> "Point", coordinates |-> <<r.Lat, r.Lon>>],
     properties |-> [Village |-> r.Village, District |-> r.District, State |-> r.State,
                     PercentAccess |-> RoundHalfEven2(r.PercentAccess),
                     AccessLevel |-> r.AccessLevel]]

\* the dict appended to features for one row
FeatureOf(r) ==
    [type |-> "Feature",
     geometry |-> [type |-> "Point", coordinates |-> <<r.Lon, r.Lat>>],
     properties |-> [Village |-> r.Village, District |-> r.District, State |-> r.State,
                     PercentAccess |-> RoundHalfEven2(r.PercentAccess),
                     AccessLevel |-> r.AccessLevel]]

\* round(None, 2) raises TypeError
RoundRaises(r) == IsNull(r.PercentAccess)

\* the rows before the first one on which round() raises
RECURSIVE GoodPrefix(_)
GoodPrefix(rs) ==
    IF rs = <<>> \/ RoundRaises(Head(rs)) THEN <<>>
    ELSE <<Head(rs)>> \o GoodPrefix(Tail(rs))

GeoJson(fs) == [type |-> "FeatureCollection", features |-> fs]

Absent == <<"absent">>
Stale == <<"stale">>
Partial == <<"partial">>
Data(payload) == <<"data", payload>>

InitialFiles(o) == [a \in ArtifactSet |-> IF o = "stale" THEN Stale ELSE Absent]

(* --------------------------- the control flow ------------------------- *)
\* the mutant of Program that writes the page shell before the rows are collected
Program_BundleFirst ==
    <<"check_args", "read_csv", "transform", "aggregate", "write_summary",
      "write_html", "collect", "build_features", "makedirs", "write_geojson",
      "write_css", "write_js", "print_complete", "stop">>

\* the statements of the script in program order
Program ==
    <<"check_args", "read_csv", "transform", "aggregate", "write_summary",
      "collect", "build_features", "makedirs", "write_geojson",
      "write_html", "write_css", "write_js", "print_complete", "stop">>

Pos(p) == CHOOSE i \in DOMAIN Program : Program[i] = p

Succ(p) == IF Pos(p) < Len(Program) THEN Program[Pos(p) + 1] ELSE "finished"

\* the mutant of ArgsOk that accepts extra arguments
ArgsOk_AtLeast(n) == n >= 3

\* len(sys.argv) != 3 is the usage error
ArgsOk(n) == n = 3

\* the mutant of FailTarget that swallows the exception and carries on
FailTarget_Swallow(p) == Succ(p)

\* nothing catches an exception: it leaves main and ends the process
FailTarget(p) == "aborted"

Step(outcome) == log' = Append(log, <<pc, outcome>>)

Raise(kind) ==
    /\ error' = kind
    /\ exit_code' = <<1>>
    /\ pc' = FailTarget(pc)
    /\ Step("fail")

Advance == pc' = Succ(pc) /\ Step("ok")

InitOn(outdirs) ==
    /\ argv_len \in 1..MaxArgv
    /\ outdir0 \in outdirs
    /\ csv = <<>>
    /\ pc = "check_args"
    /\ df = <<>>
    /\ summary = <<>>
    /\ rows = <<>>
    /\ features = <<>>
    /\ files = InitialFiles(outdir0)
    /\ dir_exists = (outdir0 = "stale")
    /\ stdout = <<>>
    /\ exit_code = Null
    /\ error = "none"
    /\ log = <<>>

\* if len(sys.argv) != 3: print usage; sys.exit(1) -- else main(...)
CheckArgs ==
    /\ pc = "check_args"
    /\ IF ArgsOk(argv_len)
       THEN /\ Advance
            /\ UNCHANGED <<stdout, exit_code>>
       ELSE /\ stdout' = Append(stdout, "usage")
            /\ exit_code' = <<1>>
            /\ pc' = "exited"
            /\ Step("exit")
    /\ UNCHANGED <<argv_len, outdir0, csv, df, summary, rows, features, files,
                   dir_exists, error>>

\* spark.read...csv(input_path): the file's rows, or an error for a missing file
ReadCsv(inputs) ==
    /\ pc = "read_csv"
    /\ \/ \E input \in inputs :
            /\ csv' = input
            /\ df' = input
            /\ Advance
            /\ UNCHANGED <<error, exit_code>>
       \/ /\ Raise("AnalysisException")
          /\ UNCHANGED <<csv, df>>
    /\ UNCHANGED <<argv_len, outdir0, summary, rows, features, files, dir_exists, stdout>>

\* the renames, the casts, PercentAccess and AccessLevel
TransformDf ==
    /\ pc = "transform"
    /\ df' = Transform(df)
    /\ Advance
    /\ UNCHANGED <<argv_len, outdir0, csv, summary, rows, features, files, dir_exists,
                   stdout, exit_code, error>>

\* groupBy(...).agg(sum, sum) and the summary's PercentAccess
Aggregate ==
    /\ pc = "aggregate"
    /\ summary' = Summarize(df)
    /\ Advance
    /\ UNCHANGED <<argv_len, outdir0, csv, df, rows, features, files, dir_exists,
                   stdout, exit_code, error>>

\* a write of one artifact: it replaces the target, or fails and leaves the
\* target as it was or truncated.  dirs: what a successful write can make of
\* the local output_dir
WriteFile(stmt, artifact, payload, dirs) ==
    /\ pc = stmt
    /\ \/ /\ files' = [files EXCEPT ![artifact] = Data(payload)]
          /\ dir_exists' \in dirs
          /\ Advance
          /\ UNCHANGED <<error, exit_code>>
       \/ /\ \E left \in {files[artifact], Partial} :
                files' = [files EXCEPT ![artifact] = left]
          /\ UNCHANGED dir_exists
          /\ Raise("IOError")
    /\ UNCHANGED <<argv_len, outdir0, csv, df, summary, rows, features, stdout>>

\* summary.coalesce(1).write.mode("overwrite")...csv(output_dir + "/district_summary"):
\* Spark writes to its own default filesystem, which may or may not be the
\* local one os.makedirs works on
WriteSummary ==
    WriteFile("write_summary", "district_summary", summary, {dir_exists, TRUE})

\* rows = df.select(...).collect()
CollectRows ==
    /\ pc = "collect"
    /\ rows' = Collect(df)
    /\ Advance
    /\ UNCHANGED <<argv_len, outdir0, csv, df, summary, features, files, dir_exists,
                   stdout, exit_code, error>>

\* for r in rows: features.append({...})
BuildFeatures ==
    /\ pc = "build_features"
    /\ IF \E i \in DOMAIN rows : RoundRaises(rows[i])
       THEN /\ features' = [i \in DOMAIN GoodPrefix(rows) |-> FeatureOf(rows[i])]
            /\ Raise("TypeError")
       ELSE /\ features' = [i \in DOMAIN rows |-> FeatureOf(rows[i])]
            /\ Advance
            /\ UNCHANGED <<error, exit_code>>
    /\ UNCHANGED <<argv_len, outdir0, csv, df, summary, rows, files, dir_exists, stdout>>

\* os.makedirs(output_dir, exist_ok=True)
MakeDirs ==
    /\ pc = "makedirs"
    /\ \/ /\ dir_exists' = TRUE
          /\ Advance
          /\ UNCHANGED <<error, exit_code>>
       \/ /\ ~dir_exists
          /\ UNCHANGED dir_exists
          /\ Raise("IOError")
    /\ UNCHANGED <<argv_len, outdir0, csv, df, summary, rows, features, files, stdout>>

\* with open(.../points.geojson, "w") as f: json.dump(geojson, f, indent=2)
WriteGeoJson == WriteFile("write_geojson", "points.geojson", GeoJson(features), {TRUE})

WriteHtml == WriteFile("write_html", "index.html", "html_code", {TRUE})

WriteCss == WriteFile("write_css", "styles.css", "css_code", {TRUE})

WriteJs == WriteFile("write_js", "script.js", "js_code", {TRUE})

\* the completion messages
PrintComplete ==
    /\ pc = "print_complete"
    /\ stdout' = Append(stdout, "complete")
    /\ Advance
    /\ UNCHANGED <<argv_len, outdir0, csv, df, summary, rows, features, files,
                   dir_exists, exit_code, error>>

\* spark.stop() and the normal end of the process
Stop ==
    /\ pc = "stop"
    /\ exit_code' = <<0>>
    /\ Advance
    /\ UNCHANGED <<argv_len, outdir0, csv, df, summary, rows, features, files,
                   dir_exists, stdout, error>>

NextOn(inputs) ==
    \/ CheckArgs
    \/ ReadCsv(inputs)
    \/ TransformDf
    \/ Aggregate
    \/ WriteSummary
    \/ CollectRows
    \/ BuildFeatures
    \/ MakeDirs
    \/ WriteGeoJson
    \/ WriteHtml
    \/ WriteCss
    \/ WriteJs
    \/ PrintComplete
    \/ Stop

Init == InitOn({"absent", "stale"})
Next == NextOn(ExportInputs)
Spec == Init /\ [][Next]_vars

InitAgg == InitOn({"absent"})
NextAgg == NextOn(AggInputs)
SpecAgg == InitAgg /\ [][NextAgg]_vars

InitRecord == InitOn({"absent"})
NextRecord == NextOn(RecordInputs)
SpecRecord == InitRecord /\ [][NextRecord]_vars

(* ====================================================================== *)
(*                              properties                                *)
(* ====================================================================== *)
Ran(stmt) == \E i \in DOMAIN log : log[i] = <<stmt, "ok">>

Failed(stmt) == \E i \in DOMAIN log : log[i] = <<stmt, "fail">>

\* a CSV count read with a value that is no number counted as 0
CellOrZero(cell) == IF cell.numeric THEN cell.val ELSE 0

\* the value of a double in units of 1/100, when it is a whole number of them
IsHundredths(x) == x[2] > 0 /\ 100 % x[2] = 0
Hundredths(x) == x[1] * (100 \div x[2])

\* h/100 is a nearest multiple of 1/100 to 100 * c / t (either way on a tie)
NearestPercent(h, c, t) == 2 * Abs(h * t - 10000 * c) <= t

(* ------------------------------- C1 ----------------------------------- *)
\* C1: every transformed record's AccessLevel is decided by its PercentAccess:
\* >= 75 is "High" (75 included), >= 40 and < 75 is "Medium" (40 included),
\* < 40 is "Low", and no record has any other level.
C1_AccessLevelThresholds ==
    Ran("transform") =>
        \A i \in DOMAIN df :
            LET p == df[i].PercentAccess
                l == df[i].AccessLevel
                n == p[1]
                d == p[2]
            IN  /\ l \in {"High", "Medium", "Low"}
                /\ (p # Null /\ d > 0) =>
                      /\ (n >= 75 * d => l = "High")
                      /\ (n >= 40 * d /\ n < 75 * d => l = "Medium")
                      /\ (n < 40 * d => l = "Low")

\* a record at exactly 75 percent (3 of 4 households) is classified High
C1_Witness ==
    /\ Ran("transform")
    /\ Len(df) = 1
    /\ df[1].TotalHouseholds = <<4>>
    /\ df[1].PercentAccess = <<75, 1>>
    /\ df[1].AccessLevel = "High"

(* ------------------------------- C2 ----------------------------------- *)
\* C2: a record whose TotalHouseholds is 0 has PercentAccess 0 and level
\* "Low" whatever its CleanWaterHH (non-zero or NULL included), and no
\* division by zero is evaluated for any record or any district.
C2_ZeroHouseholds ==
    /\ Ran("transform") =>
          \A i \in DOMAIN df :
              /\ df[i].PercentAccess # DivByZero
              /\ csv[i].total_households = NumCell(0) =>
                    /\ df[i].PercentAccess = <<0, 1>>
                    /\ df[i].AccessLevel = "Low"
    /\ Ran("aggregate") =>
          \A k \in DOMAIN summary : summary[k].PercentAccess # DivByZero

\* a run that finished on a record with no households and a NULL CleanWaterHH
C2_Witness ==
    /\ pc = "finished"
    /\ Len(csv) = 1
    /\ csv[1].total_households = NumCell(0)
    /\ csv[1].households_with_clean_water = BadCell
    /\ df[1].PercentAccess = <<0, 1>>

(* ------------------------------- C3 ----------------------------------- *)
InputKeys == {<<csv[i].state, csv[i].district>> : i \in DOMAIN csv}

Members(key) == {i \in DOMAIN csv : <<csv[i].state, csv[i].district>> = key}

SummaryRows(key) ==
    {k \in DOMAIN summary : <<summary[k].State, summary[k].District>> = key}

RECURSIVE SumTotals(_)
SumTotals(S) ==
    IF S = {} THEN 0
    ELSE LET i == CHOOSE j \in S : TRUE
         IN  CellOrZero(csv[i].total_households) + SumTotals(S \ {i})

RECURSIVE SumCleans(_)
SumCleans(S) ==
    IF S = {} THEN 0
    ELSE LET i == CHOOSE j \in S : TRUE
         IN  CellOrZero(csv[i].households_with_clean_water) + SumCleans(S \ {i})

\* a summed column read as a number: a NULL sum adds nothing
OrZero(x) == IF x = Null THEN 0 ELSE x[1]

\* C3: every (State, District) pair of the input has exactly one summary row,
\* every summary row is for a pair of the input, and the row's TotalHouseholds
\* and CleanWaterHH are the sums over exactly the records of that pair.
C3_GroupSums ==
    Ran("aggregate") =>
        /\ \A key \in InputKeys :
              /\ Cardinality(SummaryRows(key)) = 1
              /\ \A k \in SummaryRows(key) :
                    /\ OrZero(summary[k].TotalHouseholds) = SumTotals(Members(key))
                    /\ OrZero(summary[k].CleanWaterHH) = SumCleans(Members(key))
        /\ \A k \in DOMAIN summary :
              <<summary[k].State, summary[k].District>> \in InputKeys

\* two records of one district, 1 and 2 households, summed into one row of 3
C3_Witness ==
    /\ Ran("aggregate")
    /\ Len(csv) = MaxRecords
    /\ Cardinality(InputKeys) = 1
    /\ Len(summary) = 1
    /\ csv[1].total_households = NumCell(1)
    /\ csv[2].total_households = NumCell(2)
    /\ summary[1].TotalHouseholds = <<3>>

(* ------------------------------- C4 ----------------------------------- *)
\* C4: a summary row's PercentAccess is 100 * (summed CleanWaterHH) / (summed
\* TotalHouseholds) rounded to 2 decimals when the summed TotalHouseholds is
\* > 0, and 0 otherwise; the sums are those of the district's records, so it
\* is the rate of the sums and not the mean of the records' rates.  (A NULL
\* summed CleanWaterHH makes the quotient NULL.)
C4_SummaryPercent ==
    Ran("aggregate") =>
        \A key \in InputKeys : \A k \in SummaryRows(key) :
            LET p == summary[k].PercentAccess
                t == SumTotals(Members(key))
                c == SumCleans(Members(key))
            IN  IF t > 0
                THEN IF summary[k].CleanWaterHH = Null
                     THEN p = Null
                     ELSE /\ p # Null
                          /\ IsHundredths(p)
                          /\ NearestPercent(Hundredths(p), c, t)
                ELSE p = <<0, 1>>

\* records 1/1 (100 percent) and 0/2 (0 percent) of one district: the summary
\* has 33.33, the rate of the sums, where the mean of the rates is 50
C4_Witness ==
    /\ Ran("aggregate")
    /\ Len(csv) = 2
    /\ Len(summary) = 1
    /\ df[1].PercentAccess = <<100, 1>>
    /\ df[2].PercentAccess = <<0, 1>>
    /\ df[2].TotalHouseholds = <<2>>
    /\ summary[1].PercentAccess = <<3333, 100>>

(* ------------------------------- C8 ----------------------------------- *)
\* C8: in every group the summary's TotalHouseholds and CleanWaterHH are the
\* sums with each NULL replaced by 0; a group whose values are all NULL
\* reports 0, not NULL.
C8_NullAsZero ==
    Ran("aggregate") =>
        \A key \in InputKeys : \A k \in SummaryRows(key) :
            /\ summary[k].TotalHouseholds = <<SumTotals(Members(key))>>
            /\ summary[k].CleanWaterHH = <<SumCleans(Members(key))>>

(* ------------------------------- C5 ----------------------------------- *)
\* a CSV coordinate as a double, NULL when it is no number
CellDouble(cell) == IF cell.numeric THEN <<cell.val, 1>> ELSE Null

\* the feature f is the image of the input row raw
FeatureMatches(f, raw) ==
    /\ f.type = "Feature"
    /\ f.geometry.type = "Point"
    /\ f.geometry.coordinates = <<CellDouble(raw.longitude), CellDouble(raw.latitude)>>
    /\ f.properties.Village = raw.village_name
    /\ f.properties.District = raw.district
    /\ f.properties.State = raw.state
    /\ LET q == f.properties.PercentAccess
           t == raw.total_households
           c == raw.households_with_clean_water
       IN  /\ q # Null
           /\ IsHundredths(q)
           /\ IF t.numeric /\ t.val > 0
              THEN c.numeric /\ NearestPercent(Hundredths(q), c.val, t.val)
              ELSE q = <<0, 1>>

\* C5: the FeatureCollection written to points.geojson has exactly one feature
\* per input record (a one-to-one correspondence), each with coordinates
\* [Lon, Lat] of its record and PercentAccess the record's value rounded to
\* 2 decimals.
C5_FeaturePerRecord ==
    Ran("write_geojson") =>
        /\ files["points.geojson"][1] = "data"
        /\ LET g == files["points.geojson"][2]
           IN  /\ g.type = "FeatureCollection"
               /\ Len(g.features) = Len(csv)
               /\ \E m \in [DOMAIN csv -> DOMAIN csv] :
                     /\ \A i, j \in DOMAIN csv : m[i] = m[j] => i = j
                     /\ \A i \in DOMAIN csv : FeatureMatches(g.features[i], csv[m[i]])

\* a written collection of two features: 1 of 3 households (33.33) with a
\* NULL latitude, and 2 of 3 households (66.67)
C5_Witness ==
    /\ Ran("write_geojson")
    /\ Len(csv) = 2
    /\ features[1].properties.PercentAccess = <<3333, 100>>
    /\ features[1].geometry.coordinates = <<<<2, 1>>, Null>>
    /\ features[2].properties.PercentAccess = <<6667, 100>>
    /\ features[2].geometry.coordinates = <<<<2, 1>>, <<1, 1>>>>

(* ------------------------------- C6 ----------------------------------- *)
\* C6: with a number of positional arguments other than two (argv_len # 3)
\* the run only prints the usage message and exits with status 1: main is
\* never entered, the input is not read, and no output file or directory is
\* created or changed.
C6_UsageError ==
    argv_len # 3 =>
        /\ pc \in {"check_args", "exited"}
        /\ csv = <<>>
        /\ ~Ran("read_csv") /\ ~Failed("read_csv")
        /\ files = InitialFiles(outdir0)
        /\ dir_exists = (outdir0 = "stale")
        /\ pc = "exited" => /\ exit_code = <<1>>
                            /\ stdout = <<"usage">>
                            /\ log = <<<<"check_args", "exit">>>>

\* the usage exit with three positional arguments
C6_Witness ==
    /\ argv_len = 4
    /\ pc = "exited"
    /\ exit_code = <<1>>

(* ------------------------------- C7 ----------------------------------- *)
WriteStmt(a) ==
    CASE a = "district_summary" -> "write_summary"
      [] a = "points.geojson" -> "write_geojson"
      [] a = "index.html" -> "write_html"
      [] a = "styles.css" -> "write_css"
      [] a = "script.js" -> "write_js"

Printed(msg) == \E i \in DOMAIN stdout : stdout[i] = msg

\* C7: a coercion failure never aborts the run: a run that ends without an
\* input or output error has completed every stage, whatever cells of its
\* input failed coercion, and has written all five artifacts.
C7_CoercionNeverAborts ==
    (pc \in {"aborted", "finished"} /\ error \notin {"IOError", "AnalysisException"}) =>
        /\ pc = "finished"
        /\ \A a \in ArtifactSet : Ran(WriteStmt(a))
        /\ Printed("complete")

(* ------------------------------- C9 ----------------------------------- *)
ArtifactPos(a) == CHOOSE i \in DOMAIN Artifacts : Artifacts[i] = a

Attempts(stmt) == {i \in DOMAIN log : log[i][1] = stmt}

\* C9: a failed output write is fatal, with no retry and no rollback: the
\* failure is the last statement executed, the write was attempted once, no
\* later artifact is written or touched, the artifacts written before it stay
\* in place, and the completion message is not printed.
C9_WriteFailureFatal ==
    /\ \A i \in DOMAIN log : log[i][2] = "fail" => i = Len(log)
    /\ \A a \in ArtifactSet :
          Failed(WriteStmt(a)) =>
              /\ pc = "aborted"
              /\ exit_code = <<1>>
              /\ Cardinality(Attempts(WriteStmt(a))) = 1
              /\ ~Printed("complete")
              /\ \A b \in ArtifactSet :
                    /\ ArtifactPos(b) > ArtifactPos(a) =>
                          /\ Attempts(WriteStmt(b)) = {}
                          /\ files[b] = InitialFiles(outdir0)[b]
                    /\ ArtifactPos(b) < ArtifactPos(a) =>
                          /\ Ran(WriteStmt(b))
                          /\ files[b][1] = "data"

\* the write of points.geojson failed after district_summary was written,
\* over the files of an earlier run
C9_Witness ==
    /\ Failed("write_geojson")
    /\ pc = "aborted"
    /\ outdir0 = "stale"
    /\ files["district_summary"] = Data(summary)
    /\ files["points.geojson"] = Partial
    /\ files["index.html"] = Stale

(* ------------------------------- C10 ---------------------------------- *)
\* C10: no output artifact is written before the per-record rows used for the
\* GeoJSON features have been collected.
C10_NoWriteBeforeCollect ==
    \A a \in ArtifactSet : Ran(WriteStmt(a)) => Ran("collect")

\* C10 as amended: district_summary is written, from the computed summary,
\* before the per-record rows are collected; every other artifact is written
\* or touched only after the rows have been collected.
C10_OnlySummaryBeforeCollect ==
    /\ Ran("write_summary") => Ran("aggregate")
    /\ Ran("collect") => Ran("write_summary")
    /\ \A a \in ArtifactSet \ {"district_summary"} :
          (Attempts(WriteStmt(a)) # {} \/ files[a] # InitialFiles(outdir0)[a])
              => Ran("collect")

\* district_summary is on disk and the rows are not collected yet
C10_Witness ==
    /\ pc = "collect"
    /\ Len(csv) > 0
    /\ files["district_summary"] = Data(summary)
    /\ rows = <<>>
    /\ ~Ran("collect")

====
